---- MODULE Spec2Model ----
(***************************************************************************)
(* Model of the screen/audio recorder (media_utils/recorder.py) and of     *)
(* the Flask control surface that drives it (app.py).                      *)
(*                                                                         *)
(* Two specifications share one set of variables:                          *)
(*   Spec     one Recorder.start() run with its two audio worker threads,  *)
(*            the files they produce and _process_output, with stop()      *)
(*            called from outside at any moment;                           *)
(*   AppSpec  the request handlers of app.py, run by the threaded Flask    *)
(*            server, and the recording threads they start                 *)
(*            (run_recording_process around Recorder.start()).             *)
(* FairSpec and FairAppSpec add the fairness the thread scheduler gives.   *)
(***************************************************************************)
EXTENDS Integers, Sequences, FiniteSets, TLC

\* ---------------------------------------------------------------- bounds
MaxFrames == 1      \* frames counted in the video loop
MaxBuf == 1         \* buffers the driver callback delivers per audio source
MaxDuration == 1    \* largest duration (seconds) a session is configured with
MaxSessions == 2    \* recording sessions created in AppSpec
MaxHandlers == 2    \* start requests in flight at once in AppSpec
MaxTicks == 9       \* clock ticks that pass in NameSpec
MaxSide == 4        \* largest side of the small frame sizes in FrameSpec
MaxCallbacks == 3   \* buffers the driver delivers to the worker of AudioSpec

\* ------------------------------------------------------- program constants
MinAudioBytes == 1024      \* os.path.getsize(...) > 1024
WavHeaderBytes == 44       \* a WAV file opened for writing holds its header
FrameBytes == 2000         \* bytes one encoded frame adds to the container

None == "None"
NoSession == 0             \* recorder_instance = None: no session
Workers == {"mic", "sys"}
Files == {"video", "mic", "sys"}
EncoderResults == {"ok", "nonzero", "missing", "other"}

\* Bytes one buffer delivered by the driver adds to the file (490 or 491 mono
\* 16-bit frames; nothing reads a buffer's length before it is written): 44 + 980 = 1024 is the largest size that is NOT above the
\* threshold, 44 + 982 the smallest that is.
BufSizes == {980, 982}

\* Bytes of the container besides its frames once the writer is released:
\* nothing (a writer whose output never reached the disk) or the AVI header.
\* The code never reads the size of the video file.
VideoHeaderSizes == {0, 5686}

VARIABLES
    \* ---- shared by both specifications
    stop_event,       \* the module-level threading.Event of app.py
    \* ---- Recorder (Spec)
    cfg,              \* [duration, mic_device_index, record_sys_audio] fixed
                      \* by __init__
    pc,               \* position of the thread running Recorder.start()
    elapsed,          \* seconds since the video loop's start_time
    frames,           \* frames written to the container
    video_success,
    audio_success,    \* [Workers -> BOOLEAN]: mic_audio_success, sys_audio_success
    wpc,              \* [Workers -> position of the audio thread]
    success_flag,     \* [Workers -> BOOLEAN]: the local of _record_single_audio_stream
    stream_open,      \* [Workers -> BOOLEAN]: sd.InputStream started and not closed
    queue,            \* [Workers -> Seq(buffer id)]: mic_audio_queue, sys_audio_queue
    produced,         \* [Workers -> Nat]: buffers the callback has enqueued
    files,            \* [Files -> [exists, size, open]]: the temporary artifacts
    ffmpeg_inputs,    \* the -i arguments of the built command, in order
    ffmpeg_args,      \* the rest of the built command: filter graph, -map,
                      \* -an, codecs
    encoder_result,   \* None, or how subprocess.run ended
    po_calls,         \* history: invocations of _process_output
    pre_exists,       \* history: files present when _process_output began
    join_timed_out,   \* history: workers whose join(timeout=5.0) gave up
    device_failed,    \* history: workers whose sd.InputStream could not be
                      \* opened
    stop_calls,       \* history: "none", "once" (stop() was called), "again" (a
                      \* later stop() call was made as well)
    \* ---- app.py (AppSpec)
    recording,
    recorder_instance,
    final_output,     \* current_status_info["final_output"]
    hpc,              \* [Handlers -> position of a /start_recording request]
    hreq,             \* [Handlers -> the request being handled]
    tpc,              \* [Sessions -> position of the recording thread]
    dur,              \* [Sessions -> duration of the session's Recorder]
    next_id,          \* the next session (its timestamp-derived file names)
    accepted,         \* history: sessions for which a stop request was accepted
    \* ---- RecordingRequestHandler.generate_filenames (NameSpec)
    now,              \* datetime.datetime.now(), in ticks
    generated,        \* the timestamps of the generate_filenames() calls so far
    \* ---- Recorder._resize_and_pad_frame (FrameSpec)
    frame,            \* frame.shape of the captured frame, as <<width, height>>
    target_size,      \* (width, height) the frame is to be brought to
    shorts_format,    \* the letterbox policy is in force
    final_frame,      \* what the call returned (or that it raised)
    \* ---- Recorder._record_single_audio_stream, one worker (AudioSpec)
    data,             \* the buffer the writer loop took from the queue (0: none)
    written,          \* history: the buffers written to the file, in order
    write_failed,     \* history: the buffers whose file.write raised
    at_stop,          \* history: the buffers enqueued before the stop event was set
    close_raised      \* history: the close calls of the finally block that raised

recVars == <<cfg, pc, elapsed, frames, video_success, audio_success, wpc,
             success_flag, stream_open, queue, produced, files, ffmpeg_inputs,
             ffmpeg_args, encoder_result, po_calls, pre_exists, join_timed_out,
             device_failed, stop_calls>>
appVars == <<recording, recorder_instance, final_output, hpc, hreq, tpc, dur,
             next_id, accepted>>
nameVars == <<now, generated>>
frameVars == <<frame, target_size, shorts_format, final_frame>>
pipeVars == <<data, written, write_failed, at_stop, close_raised>>
vars == <<stop_event, recVars, appVars, nameVars, frameVars, pipeVars>>

Sessions == 1..MaxSessions
Handlers == 1..MaxHandlers
Durations == 0..MaxDuration

\* mic_device_index: None (no device was found) or the index of a device.
DeviceIds == {None, "index"}

Min(a, b) == IF a < b THEN a ELSE b

NoRequest == [valid |-> FALSE, duration |-> 0, session |-> NoSession]

NoFile == [exists |-> FALSE, size |-> 0, open |-> FALSE]

\* ===================================================== Recorder: the files

\* os.remove(f): a file another thread still holds open cannot be removed on
\* Windows (PermissionError) and can on POSIX; a closed file is removed.
RemoveOutcomes(f) == IF files[f].open THEN {TRUE, FALSE} ELSE {TRUE}

Removed(fs, S) == [f \in Files |-> IF f \in S THEN NoFile ELSE fs[f]]

Existing == {f \in Files : files[f].exists}

\* ============================================ Recorder: audio worker threads

Alive(w) == wpc[w] \notin {"none", "done"}

\* sf.SoundFile(temp_filename, mode="w", ...): creates or truncates the file,
\* or raises and the worker goes to its finally block.
Audio_OpenFile(w) ==
    /\ wpc[w] = "open_file"
    /\ \/ /\ files' = [files EXCEPT ![w] =
                          [exists |-> TRUE, size |-> WavHeaderBytes, open |-> TRUE]]
          /\ wpc' = [wpc EXCEPT ![w] = "open_stream"]
       \/ /\ wpc' = [wpc EXCEPT ![w] = "finally"]
          /\ UNCHANGED files
    /\ UNCHANGED <<stop_event, cfg, pc, elapsed, frames, video_success,
                   audio_success, success_flag, stream_open, queue, produced,
                   ffmpeg_inputs, encoder_result, po_calls, pre_exists,
                   join_timed_out, stop_calls, ffmpeg_args,
                   device_failed, appVars, nameVars, frameVars, pipeVars>>

\* The stop event after the except blocks of the worker (PortAudioError,
\* Exception): they log and set success_flag = False, nothing else.
DeviceErrorEvent_Stop == TRUE

DeviceErrorEvent == stop_event

\* sd.InputStream(..., device=device_index); stream.start(): the device opens
\* (device None is the host's default input device), or the call raises
\* (PortAudioError or another exception), which the worker catches:
\* success_flag = False, then the finally block.
Audio_OpenStream(w) ==
    /\ wpc[w] = "open_stream"
    /\ \/ /\ stream_open' = [stream_open EXCEPT ![w] = TRUE]
          /\ wpc' = [wpc EXCEPT ![w] = "loop"]
          /\ UNCHANGED <<stop_event, success_flag, device_failed>>
       \/ /\ wpc' = [wpc EXCEPT ![w] = "finally"]
          /\ success_flag' = [success_flag EXCEPT ![w] = FALSE]
          /\ device_failed' = device_failed \cup {w}
          /\ stop_event' = DeviceErrorEvent
          /\ UNCHANGED stream_open
    /\ UNCHANGED <<cfg, pc, elapsed, frames, video_success,
                   audio_success, queue, produced, files,
                   ffmpeg_inputs, encoder_result, po_calls, pre_exists,
                   join_timed_out, stop_calls, ffmpeg_args, appVars, nameVars, frameVars, pipeVars>>

\* _audio_callback: the driver thread puts a copy of the buffer on the queue.
Audio_Callback(w) ==
    /\ stream_open[w]
    /\ produced[w] < MaxBuf
    /\ produced' = [produced EXCEPT ![w] = @ + 1]
    /\ queue' = [queue EXCEPT ![w] = Append(@, produced[w] + 1)]
    /\ UNCHANGED <<stop_event, cfg, pc, elapsed, frames, video_success,
                   audio_success, wpc, success_flag, stream_open, files,
                   ffmpeg_inputs, encoder_result, po_calls, pre_exists,
                   join_timed_out, stop_calls, ffmpeg_args,
                   device_failed, appVars, nameVars, frameVars, pipeVars>>

\* What file.write(data) does to the file: on POSIX the file may have been
\* unlinked meanwhile, and the data goes to the unlinked inode.
Written(w, n) ==
    IF files[w].exists
    THEN [files EXCEPT ![w].size = @ + n]
    ELSE files

\* success_flag after a file.write(data) that returned: `if not success_flag:
\* success_flag = True`.
FirstWriteFlag_Unset(w) == success_flag[w]

FirstWriteFlag(w) == TRUE

\* self.stop_event.is_set(), as both loops poll it.
stop_requested_Never == FALSE

stop_requested == stop_event

\* One pass of `while not self.stop_event.is_set()`: leave the loop when the
\* event is set; otherwise take a buffer (queue.get(timeout=0.1)) and write it,
\* where a failing write is logged and the loop goes on.  An empty queue
\* (queue.Empty) changes nothing.
Audio_Loop(w) ==
    /\ wpc[w] = "loop"
    /\ \/ /\ stop_requested
          /\ wpc' = [wpc EXCEPT ![w] = "finally"]
          /\ UNCHANGED <<queue, files, success_flag>>
       \/ /\ ~stop_requested
          /\ queue[w] # <<>>
          /\ queue' = [queue EXCEPT ![w] = Tail(@)]
          /\ \/ /\ \E n \in BufSizes : files' = Written(w, n)
                /\ success_flag' = [success_flag EXCEPT ![w] = FirstWriteFlag(w)]
             \/ UNCHANGED <<files, success_flag>>
          /\ UNCHANGED wpc
    /\ UNCHANGED <<stop_event, cfg, pc, elapsed, frames, video_success,
                   audio_success, stream_open, produced, ffmpeg_inputs,
                   encoder_result, po_calls, pre_exists, join_timed_out,
                   stop_calls, ffmpeg_args,
                   device_failed, appVars, nameVars, frameVars, pipeVars>>

\* The finally block: the stream is stopped and closed, the file is closed, and
\* success_flag is returned.
Audio_Finally(w) ==
    /\ wpc[w] = "finally"
    /\ stream_open' = [stream_open EXCEPT ![w] = FALSE]
    /\ files' = [files EXCEPT ![w].open = FALSE]
    /\ wpc' = [wpc EXCEPT ![w] = "ret"]
    /\ UNCHANGED <<stop_event, cfg, pc, elapsed, frames, video_success,
                   audio_success, success_flag, queue, produced, ffmpeg_inputs,
                   encoder_result, po_calls, pre_exists, join_timed_out,
                   stop_calls, ffmpeg_args,
                   device_failed, appVars, nameVars, frameVars, pipeVars>>

\* The value the thread's target stores: what _record_single_audio_stream
\* returned.
ThreadResult_Always(w) == TRUE

ThreadResult(w) == success_flag[w]

\* The thread's target: setattr(self, "<w>_audio_success", <returned flag>);
\* the thread ends.
Audio_Return(w) ==
    /\ wpc[w] = "ret"
    /\ audio_success' = [audio_success EXCEPT ![w] = ThreadResult(w)]
    /\ wpc' = [wpc EXCEPT ![w] = "done"]
    /\ UNCHANGED <<stop_event, cfg, pc, elapsed, frames, video_success,
                   success_flag, stream_open, queue, produced, files,
                   ffmpeg_inputs, encoder_result, po_calls, pre_exists,
                   join_timed_out, stop_calls, ffmpeg_args,
                   device_failed, appVars, nameVars, frameVars, pipeVars>>

\* ======================================= Recorder: the thread running start()

workerVars == <<wpc, success_flag, stream_open, queue, produced, device_failed>>
outputVars == <<ffmpeg_inputs, ffmpeg_args, encoder_result, po_calls,
                pre_exists>>

\* start(): self.stop_event.clear() and the three outcome flags reset.
Start_Clear ==
    /\ pc = "start"
    /\ stop_event' = FALSE
    /\ video_success' = FALSE
    /\ audio_success' = [w \in Workers |-> FALSE]
    /\ pc' = "spawn"
    /\ UNCHANGED <<cfg, elapsed, frames, workerVars, files, outputVars,
                   join_timed_out, stop_calls, appVars, nameVars, frameVars, pipeVars>>

\* start(): the microphone thread is created and started, whatever
\* mic_device_index is; the system-audio thread only if record_sys_audio
\* (sys_device_index is not None), otherwise sys_audio_thread = None.
Start_Spawn ==
    /\ pc = "spawn"
    /\ wpc' = [w \in Workers |->
                 IF w = "mic" \/ cfg.record_sys_audio THEN "open_file" ELSE "none"]
    /\ pc' = "video_open"
    /\ UNCHANGED <<stop_event, cfg, elapsed, frames, video_success,
                   audio_success, success_flag, stream_open, queue, produced,
                   files, outputVars, join_timed_out, device_failed,
                   stop_calls, appVars, nameVars, frameVars, pipeVars>>

\* The stop event after the except block of _screen_record(): self.stop().
VideoErrorEvent_Unchanged == stop_event

VideoErrorEvent == TRUE

\* _screen_record() up to the loop: video_success = False, the region and the
\* target size are resolved and cv2.VideoWriter is opened.  If that raises
\* (IOError when the writer is not opened), the except block calls self.stop()
\* and the finally block has no writer to release.
ScreenRecord_Open ==
    /\ pc = "video_open"
    /\ video_success' = FALSE
    /\ \/ /\ files' = [files EXCEPT !["video"] =
                          [exists |-> TRUE, size |-> 0, open |-> TRUE]]
          /\ elapsed' = 0
          /\ pc' = "video_check"
          /\ UNCHANGED stop_event
       \/ /\ stop_event' = VideoErrorEvent
          /\ pc' = "set_event"
          /\ UNCHANGED <<files, elapsed>>
    /\ UNCHANGED <<cfg, frames, audio_success, workerVars, outputVars,
                   join_timed_out, stop_calls, appVars, nameVars, frameVars, pipeVars>>

\* out.release(): the container is finished and closed.  A container into
\* which a frame was written has its header.
Released ==
    {[files EXCEPT !["video"] =
         [exists |-> TRUE, size |-> h + frames * FrameBytes, open |-> FALSE]] :
        h \in IF frames = 0 THEN VideoHeaderSizes ELSE VideoHeaderSizes \ {0}}

\* time.time() < end_time fails; duration = 0 means end_time = inf.
TimeIsUp_NoInf == elapsed >= cfg.duration

TimeIsUp == cfg.duration > 0 /\ elapsed >= cfg.duration

\* `while not self.stop_event.is_set() and time.time() < end_time`: when the
\* condition fails the loop ends normally, video_success = True, and the
\* finally block releases the writer.
ScreenRecord_Check ==
    /\ pc = "video_check"
    /\ IF stop_requested \/ TimeIsUp
       THEN /\ video_success' = TRUE
            /\ files' \in Released
            /\ elapsed' = 0
            /\ pc' = "set_event"
       ELSE /\ pc' = "video_body"
            /\ UNCHANGED <<video_success, files, elapsed>>
    /\ UNCHANGED <<stop_event, cfg, frames, audio_success, workerVars,
                   outputVars, join_timed_out, stop_calls, appVars, nameVars, frameVars, pipeVars>>

\* The loop body, first half: sleep to the next frame boundary and
\* pyautogui.screenshot().  Time passes.  An exception goes to the except block
\* (self.stop()) and the finally block (release).
ScreenRecord_Body ==
    /\ pc = "video_body"
    /\ \/ /\ \E dt \in {0, 1} :
                elapsed' = Min(elapsed + dt, IF cfg.duration > 0
                                             THEN cfg.duration
                                             ELSE MaxDuration)
          /\ pc' = "video_write"
          /\ UNCHANGED <<stop_event, files>>
       \/ /\ stop_event' = VideoErrorEvent
          /\ files' \in Released
          /\ elapsed' = 0
          /\ pc' = "set_event"
    /\ UNCHANGED <<cfg, frames, video_success, audio_success, workerVars,
                   outputVars, join_timed_out, stop_calls, appVars, nameVars, frameVars, pipeVars>>

\* The frames written after out.write(processed_frame), counted up to MaxFrames.
FramesAfterWrite_Skip == frames

FramesAfterWrite == Min(frames + 1, MaxFrames)

\* The loop body, second half: the screenshot is converted (np.array,
\* cv2.cvtColor), _resize_and_pad_frame, out.write; back to the loop test.  An
\* exception goes to the except block and the finally block, and the
\* screenshot is not written.
ScreenRecord_Write ==
    /\ pc = "video_write"
    /\ \/ /\ frames' = FramesAfterWrite
          /\ pc' = "video_check"
          /\ UNCHANGED <<stop_event, files, elapsed>>
       \/ /\ stop_event' = VideoErrorEvent
          /\ files' \in Released
          /\ elapsed' = 0
          /\ pc' = "set_event"
          /\ UNCHANGED frames
    /\ UNCHANGED <<cfg, video_success, audio_success, workerVars, outputVars,
                   join_timed_out, stop_calls, appVars, nameVars, frameVars, pipeVars>>

\* start(): self.stop_event.set() after _screen_record() returned.
EventAfterRecording_Unchanged == stop_event

EventAfterRecording == TRUE

Start_SetEvent ==
    /\ pc = "set_event"
    /\ stop_event' = EventAfterRecording
    /\ pc' = "join_mic"
    /\ UNCHANGED <<cfg, elapsed, frames, video_success, audio_success,
                   workerVars, files, outputVars, join_timed_out, stop_calls,
                   appVars, nameVars, frameVars, pipeVars>>

\* `for t in threads_to_join`: the microphone thread, then the system-audio
\* thread, then _process_output().
AfterJoin_SkipSys(w) == "process"

AfterJoin(w) == IF w = "mic" THEN "join_sys" ELSE "process"

\* threads_to_join: the thread objects that are not None.
threads_to_join_MicOnly == {w \in {"mic"} : wpc[w] # "none"}

threads_to_join == {w \in Workers : wpc[w] # "none"}

\* start(): one pass of `for t in threads_to_join`.  A thread that is None is
\* not in the list; a thread that is not alive is not joined; a live thread is
\* joined with t.join(timeout=5.0), which returns when the thread has ended or
\* when the timeout has passed, and a thread still alive then only draws a
\* warning.
Start_Join(w) ==
    /\ pc = "join_" \o w
    /\ \/ /\ w \notin threads_to_join \/ ~Alive(w)
          /\ UNCHANGED join_timed_out
       \/ /\ w \in threads_to_join
          /\ Alive(w)
          /\ join_timed_out' = join_timed_out \cup {w}
    /\ pc' = AfterJoin(w)
    /\ UNCHANGED <<stop_event, cfg, elapsed, frames, video_success,
                   audio_success, workerVars, files, outputVars, stop_calls,
                   appVars, nameVars, frameVars, pipeVars>>

\* stop(): self.stop_event.set().
StopEffect_Toggle == ~stop_event

StopEffect == TRUE

Stop ==
    /\ pc \notin {"done", "raised"}
    /\ stop_event' = StopEffect
    /\ stop_calls' = IF stop_calls = "none" THEN "once" ELSE "again"
    /\ UNCHANGED <<cfg, pc, elapsed, frames, video_success, audio_success,
                   workerVars, files, outputVars, join_timed_out, appVars, nameVars, frameVars, pipeVars>>

\* ============================================= Recorder: _process_output

\* video_valid = self.video_success and os.path.exists(self.video_filename_temp)
video_valid == video_success /\ files["video"].exists

\* mic_audio_valid = self.mic_audio_success and os.path.exists(...)
\*                   and os.path.getsize(...) > 1024
mic_audio_valid_SizeOnly ==
    /\ files["mic"].exists
    /\ files["mic"].size > MinAudioBytes

mic_audio_valid ==
    /\ audio_success["mic"]
    /\ files["mic"].exists
    /\ files["mic"].size > MinAudioBytes

\* sys_audio_valid = self.record_sys_audio and self.sys_audio_success and ...
sys_audio_valid ==
    /\ cfg.record_sys_audio
    /\ audio_success["sys"]
    /\ files["sys"].exists
    /\ files["sys"].size > MinAudioBytes

\* The -i arguments of ffmpeg_command: the video first, then the microphone
\* file, then the system-audio file, each audio file only if it is valid.
BuildInputs_SysFirst ==
    <<"video">>
    \o (IF sys_audio_valid THEN <<"sys">> ELSE <<>>)
    \o (IF mic_audio_valid THEN <<"mic">> ELSE <<>>)

BuildInputs ==
    <<"video">>
    \o (IF mic_audio_valid THEN <<"mic">> ELSE <<>>)
    \o (IF sys_audio_valid THEN <<"sys">> ELSE <<>>)

\* f"[{input_count}:a]": the audio stream of input number k.
InputLabel(k) == <<"1:a", "2:a">>[k]

\* audio_inputs_for_filter: input_count is 1 before the microphone branch and
\* is incremented for each audio file added.
audio_inputs_for_filter ==
    (IF mic_audio_valid THEN <<InputLabel(1)>> ELSE <<>>)
    \o (IF sys_audio_valid
        THEN <<InputLabel(IF mic_audio_valid THEN 2 ELSE 1)>>
        ELSE <<>>)

\* One chain of the filter graph: [inputs]filter=expr[out].
Chain(inputs, filter, expr, out) ==
    [inputs |-> inputs, filter |-> filter, expr |-> expr, out |-> out]

VideoChain == Chain(<<"0:v:0">>, "setpts", "PTS-STARTPTS", "v_synced")

\* filter_complex for the audio inputs a: two or more, exactly one, none.
filter_complex(a) ==
    IF Len(a) >= 2
    THEN <<VideoChain,
           Chain(<<a[1]>>, "asetpts", "PTS-STARTPTS", "a_mic"),
           Chain(<<a[2]>>, "asetpts", "PTS-STARTPTS-0.5/TB", "a_sys"),
           Chain(<<"a_mic", "a_sys">>, "amix", "inputs=2", "a_mix")>>
    ELSE IF Len(a) = 1
    THEN <<VideoChain,
           Chain(<<a[1]>>, "asetpts", "PTS-STARTPTS", "a_synced")>>
    ELSE <<VideoChain>>

\* The -map arguments, in order.
map_args_Separate(a) ==
    IF Len(a) >= 2 THEN <<"v_synced", "a_mic", "a_sys">>
    ELSE IF Len(a) = 1 THEN <<"v_synced", "a_synced">>
    ELSE <<"v_synced">>

map_args(a) ==
    IF Len(a) >= 2 THEN <<"v_synced", "a_mix">>
    ELSE IF Len(a) = 1 THEN <<"v_synced", "a_synced">>
    ELSE <<"v_synced">>

\* -an is added only in the branch without audio inputs.
an_option_Never(a) == FALSE

an_option(a) == Len(a) = 0

\* "-c:v", "libx264" always; "-c:a", "aac" if there is an audio input.
video_codec == "libx264"

audio_codec(a) == IF Len(a) > 0 THEN "aac" ELSE None

NoArgs ==
    [filter_complex |-> <<>>, map |-> <<>>, an |-> FALSE,
     video_codec |-> None, audio_codec |-> None]

\* The command after its -i arguments.
BuildArgs ==
    LET a == audio_inputs_for_filter
    IN  [filter_complex |-> filter_complex(a), map |-> map_args(a),
         an |-> an_option(a), video_codec |-> video_codec,
         audio_codec |-> audio_codec(a)]

mainVars == <<cfg, elapsed, frames, video_success, audio_success>>

\* The abort branch: `if os.path.exists(mic): os.remove(mic)`, then
\* `if self.record_sys_audio and os.path.exists(sys): os.remove(sys)`, then
\* return.  Neither os.remove is inside a try: an OSError leaves
\* _process_output() and start(), and the second file is not reached.
\* The set of [files, pc] the branch can end in.
AbortOutcomes ==
    LET micThere == files["mic"].exists
        sysThere == cfg.record_sys_audio /\ files["sys"].exists
        afterMic == IF micThere THEN Removed(files, {"mic"}) ELSE files
        micRaises == micThere /\ FALSE \in RemoveOutcomes("mic")
        micPasses == ~micThere \/ TRUE \in RemoveOutcomes("mic")
        sysRaises == sysThere /\ FALSE \in RemoveOutcomes("sys")
        sysPasses == ~sysThere \/ TRUE \in RemoveOutcomes("sys")
    IN  (IF micRaises THEN {[files |-> files, pc |-> "raised"]} ELSE {})
        \cup (IF micPasses /\ sysRaises
              THEN {[files |-> afterMic, pc |-> "raised"]}
              ELSE {})
        \cup (IF micPasses /\ sysPasses
              THEN {[files |-> IF sysThere THEN Removed(afterMic, {"sys"})
                                           ELSE afterMic,
                     pc |-> "done"]}
              ELSE {})

\* _process_output() from its entry to the encoder call or to the end of the
\* abort branch: the three validity tests, then either the abort branch (the
\* video is not valid) or the command is built and subprocess.run is entered.
ProcessOutput_Check ==
    /\ pc = "process"
    /\ po_calls' = po_calls + 1
    /\ pre_exists' = Existing
    /\ IF video_valid
       THEN /\ ffmpeg_inputs' = BuildInputs
            /\ ffmpeg_args' = BuildArgs
            /\ pc' = "encoder"
            /\ UNCHANGED files
       ELSE /\ \E o \in AbortOutcomes :
                  /\ files' = o.files
                  /\ pc' = o.pc
            /\ UNCHANGED <<ffmpeg_inputs, ffmpeg_args>>
    /\ UNCHANGED <<stop_event, mainVars, workerVars, encoder_result,
                   join_timed_out, stop_calls, appVars, nameVars, frameVars, pipeVars>>

merge_success(r) == r = "ok"

\* temp_files_to_remove: the temporary files that exist, the system-audio file
\* only if record_sys_audio.
temp_files_to_remove_InputsOnly ==
    {f \in Existing : \E i \in 1..Len(ffmpeg_inputs) : ffmpeg_inputs[i] = f}

temp_files_to_remove_AudioOnly ==
    {f \in Existing \cap Workers : f = "sys" => cfg.record_sys_audio}

temp_files_to_remove ==
    {f \in Existing : f = "sys" => cfg.record_sys_audio}

\* The files the cleanup tries to remove: all the listed ones after a
\* successful merge, none otherwise.
CleanupTargets_Always(r) == temp_files_to_remove

CleanupTargets(r) == IF merge_success(r) THEN temp_files_to_remove ELSE {}

\* subprocess.run(ffmpeg_command, check=True, ...) ends: exit code 0, or
\* CalledProcessError (non-zero exit), FileNotFoundError (no executable) or
\* another exception, all three caught and logged.  Then the cleanup: after a
\* successful merge every listed file is removed, an OSError per file being
\* logged and skipped; after a failed merge the files are only listed in the
\* log.  _process_output() and start() return.
ProcessOutput_Run ==
    /\ pc = "encoder"
    /\ \E r \in EncoderResults :
          /\ encoder_result' = r
          /\ \E kept \in SUBSET {f \in CleanupTargets(r) : FALSE \in RemoveOutcomes(f)} :
                files' = Removed(files, CleanupTargets(r) \ kept)
    /\ pc' = "done"
    /\ UNCHANGED <<stop_event, mainVars, workerVars, ffmpeg_inputs,
                   ffmpeg_args, po_calls,
                   pre_exists, join_timed_out, stop_calls, appVars, nameVars, frameVars, pipeVars>>

\* ================================================ Recorder: specification

\* A Recorder as __init__ leaves it, with start() invoked on its thread and not
\* yet at its first statement.
RecInit ==
    /\ cfg \in [duration : Durations, mic_device_index : DeviceIds,
               record_sys_audio : BOOLEAN]
    /\ pc = "start"
    /\ elapsed = 0
    /\ frames = 0
    /\ video_success = FALSE
    /\ audio_success = [w \in Workers |-> FALSE]
    /\ wpc = [w \in Workers |-> "none"]
    /\ success_flag = [w \in Workers |-> FALSE]
    /\ stream_open = [w \in Workers |-> FALSE]
    /\ queue = [w \in Workers |-> <<>>]
    /\ produced = [w \in Workers |-> 0]
    /\ files = [f \in Files |-> NoFile]
    /\ ffmpeg_inputs = <<>>
    /\ ffmpeg_args = NoArgs
    /\ encoder_result = None
    /\ po_calls = 0
    /\ pre_exists = {}
    /\ join_timed_out = {}
    /\ device_failed = {}
    /\ stop_calls = "none"

AppIdle ==
    /\ recording = FALSE
    /\ recorder_instance = NoSession
    /\ final_output = NoSession
    /\ hpc = [h \in Handlers |-> "idle"]
    /\ hreq = [h \in Handlers |-> NoRequest]
    /\ tpc = [s \in Sessions |-> "none"]
    /\ dur = [s \in Sessions |-> 0]
    /\ next_id = 1
    /\ accepted = {}

\* No file names have been generated.
NameIdle ==
    /\ now = 0
    /\ generated = <<>>

\* No call of _resize_and_pad_frame has returned anything.
NoFrame == [status |-> "none"]

FrameIdle ==
    /\ frame = <<1, 1>>
    /\ target_size = <<1, 1>>
    /\ shorts_format = FALSE
    /\ final_frame = NoFrame

\* The writer loop holds no buffer and nothing has been written.
PipeIdle ==
    /\ data = 0
    /\ written = <<>>
    /\ write_failed = {}
    /\ at_stop = {}
    /\ close_raised = {}

Init ==
    /\ stop_event = FALSE
    /\ RecInit
    /\ AppIdle
    /\ NameIdle
    /\ FrameIdle
    /\ PipeIdle

MainStep ==
    \/ Start_Clear
    \/ Start_Spawn
    \/ ScreenRecord_Open
    \/ ScreenRecord_Check
    \/ ScreenRecord_Body
    \/ ScreenRecord_Write
    \/ Start_SetEvent
    \/ \E w \in Workers : Start_Join(w)
    \/ ProcessOutput_Check
    \/ ProcessOutput_Run

WorkerStep(w) ==
    \/ Audio_OpenFile(w)
    \/ Audio_OpenStream(w)
    \/ Audio_Loop(w)
    \/ Audio_Finally(w)
    \/ Audio_Return(w)

Next ==
    \/ MainStep
    \/ \E w \in Workers : WorkerStep(w)
    \/ \E w \in Workers : Audio_Callback(w)
    \/ Stop

Spec == Init /\ [][Next]_vars

\* The scheduler runs the thread of start() whenever it can take a step; the
\* audio workers may hang in the driver, so nothing is assumed of them.
FairSpec == Spec /\ WF_vars(MainStep)

\* ========================================================= app.py: routes

\* start_recording_route(), first test: `if recording: return error` (which
\* changes nothing).  A request that passes it carries its parameters and
\* stands for one session (the Recorder it will create).
StartRoute_Check(h) ==
    /\ hpc[h] = "idle"
    /\ next_id <= MaxSessions
    /\ ~recording
    /\ \E r \in {[valid |-> FALSE, duration |-> 0]}
               \cup {[valid |-> TRUE, duration |-> d] : d \in Durations} :
          hreq' = [hreq EXCEPT ![h] =
                      [valid |-> r.valid, duration |-> r.duration, session |-> next_id]]
    /\ next_id' = next_id + 1
    /\ hpc' = [hpc EXCEPT ![h] = "checked"]
    /\ UNCHANGED <<stop_event, recVars, nameVars, frameVars, pipeVars, recording, recorder_instance,
                   final_output, tpc, dur, accepted>>

\* start_recording_route(), the except branches: validation (or anything
\* else before the thread is started) raised, and `recording = False`.
StartRoute_Error(h) ==
    /\ hpc[h] = "checked"
    /\ ~hreq[h].valid
    /\ recording' = FALSE
    /\ hpc' = [hpc EXCEPT ![h] = "idle"]
    /\ hreq' = [hreq EXCEPT ![h] = NoRequest]
    /\ UNCHANGED <<stop_event, recVars, nameVars, frameVars, pipeVars, recorder_instance, final_output, tpc,
                   dur, next_id, accepted>>

\* start_recording_route(): recording = True; stop_event.clear();
\* current_status_info["final_output"] = handler.output_filename.
StartRoute_SetState(h) ==
    /\ hpc[h] = "checked"
    /\ hreq[h].valid
    /\ recording' = TRUE
    /\ stop_event' = FALSE
    /\ final_output' = hreq[h].session
    /\ hpc' = [hpc EXCEPT ![h] = "state_set"]
    /\ UNCHANGED <<recVars, nameVars, frameVars, pipeVars, recorder_instance, hreq, tpc, dur, next_id,
                   accepted>>

\* start_recording_route(): recorder_instance = Recorder(**recorder_args) and
\* main_recording_thread.start() with target run_recording_process.
StartRoute_Launch(h) ==
    /\ hpc[h] = "state_set"
    /\ recorder_instance' = hreq[h].session
    /\ tpc' = [tpc EXCEPT ![hreq[h].session] = "start"]
    /\ dur' = [dur EXCEPT ![hreq[h].session] = hreq[h].duration]
    /\ hpc' = [hpc EXCEPT ![h] = "idle"]
    /\ hreq' = [hreq EXCEPT ![h] = NoRequest]
    /\ UNCHANGED <<stop_event, recVars, nameVars, frameVars, pipeVars, recording, final_output, next_id,
                   accepted>>

\* stop_recording_route(): `if not recording or recorder_instance is None:
\* return error` (which changes nothing); otherwise recorder_instance.stop().
SessionActive_RecordingOnly == recording

SessionActive == recording /\ recorder_instance # NoSession

StopRoute ==
    /\ SessionActive
    /\ stop_event' = TRUE
    /\ accepted' = accepted \cup {recorder_instance}
    /\ UNCHANGED <<recVars, nameVars, frameVars, pipeVars, recording, recorder_instance, final_output, hpc,
                   hreq, tpc, dur, next_id>>

\* ============================== app.py: the recording thread of a session

\* run_recording_process() enters recorder.start(): self.stop_event.clear(),
\* the flags are reset and the audio threads started.
Run_Start(s) ==
    /\ tpc[s] = "start"
    /\ stop_event' = FALSE
    /\ tpc' = [tpc EXCEPT ![s] = "video_open"]
    /\ UNCHANGED <<recVars, nameVars, frameVars, pipeVars, recording, recorder_instance, final_output, hpc,
                   hreq, dur, next_id, accepted>>

\* _screen_record() up to the loop; a failure to open the writer ends in
\* self.stop().
Run_VideoOpen(s) ==
    /\ tpc[s] = "video_open"
    /\ \/ /\ tpc' = [tpc EXCEPT ![s] = "video_check"]
          /\ UNCHANGED stop_event
       \/ /\ stop_event' = TRUE
          /\ tpc' = [tpc EXCEPT ![s] = "set_event"]
    /\ UNCHANGED <<recVars, nameVars, frameVars, pipeVars, recording, recorder_instance, final_output, hpc,
                   hreq, dur, next_id, accepted>>

\* The loop test of _screen_record().  With duration > 0 the clock decides
\* whether end_time has passed; with duration = 0 only the event ends the loop.
Run_VideoCheck(s) ==
    /\ tpc[s] = "video_check"
    /\ \/ /\ stop_event
          /\ tpc' = [tpc EXCEPT ![s] = "set_event"]
       \/ /\ ~stop_event
          /\ dur[s] > 0
          /\ tpc' = [tpc EXCEPT ![s] = "set_event"]
       \/ /\ ~stop_event
          /\ tpc' = [tpc EXCEPT ![s] = "video_body"]
    /\ UNCHANGED <<stop_event, recVars, nameVars, frameVars, pipeVars, recording, recorder_instance,
                   final_output, hpc, hreq, dur, next_id, accepted>>

\* The loop body of _screen_record(): a frame is captured and written, or an
\* exception ends the loop through self.stop().
Run_VideoBody(s) ==
    /\ tpc[s] = "video_body"
    /\ \/ /\ tpc' = [tpc EXCEPT ![s] = "video_check"]
          /\ UNCHANGED stop_event
       \/ /\ stop_event' = TRUE
          /\ tpc' = [tpc EXCEPT ![s] = "set_event"]
    /\ UNCHANGED <<recVars, nameVars, frameVars, pipeVars, recording, recorder_instance, final_output, hpc,
                   hreq, dur, next_id, accepted>>

\* start(): self.stop_event.set() after _screen_record().
Run_SetEvent(s) ==
    /\ tpc[s] = "set_event"
    /\ stop_event' = TRUE
    /\ tpc' = [tpc EXCEPT ![s] = "process"]
    /\ UNCHANGED <<recVars, nameVars, frameVars, pipeVars, recording, recorder_instance, final_output, hpc,
                   hreq, dur, next_id, accepted>>

\* The rest of start(): the joins, each bounded by its timeout, and
\* _process_output().  start() returns, or an exception leaves it and
\* run_recording_process() sets the recorder's stop event in its except block.
Run_Finish(s) ==
    /\ tpc[s] = "process"
    /\ \/ UNCHANGED stop_event
       \/ stop_event' = TRUE
    /\ tpc' = [tpc EXCEPT ![s] = "finally"]
    /\ UNCHANGED <<recVars, nameVars, frameVars, pipeVars, recording, recorder_instance, final_output, hpc,
                   hreq, dur, next_id, accepted>>

\* run_recording_process(), finally block: recording = False.
Run_ResetRecording(s) ==
    /\ tpc[s] = "finally"
    /\ recording' = FALSE
    /\ tpc' = [tpc EXCEPT ![s] = "reset_instance"]
    /\ UNCHANGED <<stop_event, recVars, nameVars, frameVars, pipeVars, recorder_instance, final_output, hpc,
                   hreq, dur, next_id, accepted>>

\* run_recording_process(), finally block: recorder_instance = None;
\* current_status_info["final_output"] = None.  The thread ends.
Run_ResetInstance(s) ==
    /\ tpc[s] = "reset_instance"
    /\ recorder_instance' = NoSession
    /\ final_output' = NoSession
    /\ tpc' = [tpc EXCEPT ![s] = "finished"]
    /\ UNCHANGED <<stop_event, recVars, nameVars, frameVars, pipeVars, recording, hpc, hreq, dur, next_id,
                   accepted>>

\* ==================================================== app.py: specification

\* The module-level state of app.py after import; no Recorder exists yet.
AppInit ==
    /\ stop_event = FALSE
    /\ AppIdle
    /\ RecInit
    /\ cfg = [duration |-> 0, mic_device_index |-> None,
              record_sys_audio |-> FALSE]
    /\ NameIdle
    /\ FrameIdle
    /\ PipeIdle

HandlerStep(h) ==
    \/ StartRoute_Error(h)
    \/ StartRoute_SetState(h)
    \/ StartRoute_Launch(h)

ThreadStep(s) ==
    \/ Run_Start(s)
    \/ Run_VideoOpen(s)
    \/ Run_VideoCheck(s)
    \/ Run_VideoBody(s)
    \/ Run_SetEvent(s)
    \/ Run_Finish(s)
    \/ Run_ResetRecording(s)
    \/ Run_ResetInstance(s)

AppNext ==
    \/ \E h \in Handlers : StartRoute_Check(h)
    \/ \E h \in Handlers : HandlerStep(h)
    \/ StopRoute
    \/ \E s \in Sessions : ThreadStep(s)

AppSpec == AppInit /\ [][AppNext]_vars

\* Every started thread and every request being handled keeps running; no
\* request has to arrive.
FairAppSpec ==
    /\ AppSpec
    /\ \A s \in Sessions : WF_vars(ThreadStep(s))
    /\ \A h \in Handlers : WF_vars(HandlerStep(h))

\* ======================= app.py: RecordingRequestHandler.generate_filenames

\* The clock is counted in ticks of half a second.
TicksPerSecond == 2

\* datetime.datetime.now().strftime("%Y%m%d_%H%M%S"): the time to the second,
\* the fraction dropped.
Timestamp(t) == t \div TicksPerSecond

\* The four paths derived from base_filename = "screen_recording_" + timestamp.
GeneratedPaths(ts) ==
    {[folder |-> "TEMP_FOLDER", timestamp |-> ts, suffix |-> "_temp.avi"],
     [folder |-> "TEMP_FOLDER", timestamp |-> ts, suffix |-> "_mic_temp.wav"],
     [folder |-> "TEMP_FOLDER", timestamp |-> ts, suffix |-> "_sys_temp.wav"],
     [folder |-> "RECORDINGS_FOLDER", timestamp |-> ts, suffix |-> ".mp4"]}

\* Time passes.
Name_Tick ==
    /\ now < MaxTicks
    /\ now' = now + 1
    /\ UNCHANGED <<stop_event, recVars, appVars, frameVars, pipeVars, generated>>

\* generate_filenames() is called for the next session.
Name_Generate ==
    /\ Len(generated) < MaxSessions
    /\ generated' = Append(generated, Timestamp(now))
    /\ UNCHANGED <<stop_event, recVars, appVars, frameVars, pipeVars, now>>

NameNext ==
    \/ Name_Tick
    \/ Name_Generate

\* The calls of generate_filenames() against the clock, whatever else the
\* application does between them.
NameSpec == AppInit /\ [][NameNext]_vars

\* ================================ Recorder._resize_and_pad_frame (pure)

\* Sizes are <<width, height>>.  The sizes a call is tried with: every size
\* with sides up to MaxSide, the display and the 9:16 target of the program,
\* a region one pixel high across the screen, and a 9x7 source with a 9x16
\* target, the smallest pair on which the floating-point quotient below falls
\* short.
SmallSizes == {<<a, b>> : a \in 1..MaxSide, b \in 1..MaxSide}

SourceSizes ==
    SmallSizes \cup {<<1920, 1080>>, <<1080, 1920>>, <<1920, 1>>, <<9, 7>>}

TargetSizes == SmallSizes \cup {<<1920, 1080>>, <<1080, 1920>>, <<9, 16>>}

\* _screen_record: target_size = (1080, 1920) if shorts_format, else the size
\* of the recorded region (the whole screen when region is None).
ScreenRecord_target_size(region_size, shorts) ==
    IF shorts THEN <<1080, 1920>> ELSE region_size

\* source_aspect = w / h, target_aspect = target_w / target_h, two float
\* divisions of positive integers, and their comparison: two quotients
\* of integers below 2^26 round to the same double only if they are equal, so
\* the comparison is that of the exact ratios.
source_wider_OrEqual(f, t) == f[1] * t[2] >= t[1] * f[2]

source_wider(f, t) == f[1] * t[2] > t[1] * f[2]

source_taller(f, t) == f[1] * t[2] < t[1] * f[2]

\* The <<w, h, new_w>> with sides in the sets above for which the double
\* new_w / (w / h) is just below the exact quotient, an integer, so that int()
\* gives one less: 9 / (9 / 7) = 6.999999999999999.  h * (w / h) is exact on
\* those sets.
FloatShort == {<<9, 7, 9>>, <<9, 7, 1080>>}

\* new_h = int(new_w / source_aspect)
scaled_height(f, new_w) ==
    (new_w * f[2]) \div f[1] - (IF <<f[1], f[2], new_w>> \in FloatShort THEN 1 ELSE 0)

\* new_w = int(new_h * source_aspect)
scaled_width(f, new_h) == (new_h * f[1]) \div f[2]

\* pad_top = pad_v // 2 (pad_left = pad_h // 2); the other pad is the rest.
pad_first_Ceil(p) == (p + 1) \div 2

pad_first(p) == p \div 2

\* cv2.resize(frame, (new_w, new_h)) followed by cv2.copyMakeBorder(resized,
\* top, bottom, left, right): cv2.resize raises for an empty size; the border
\* adds its rows and columns to the resized frame.
resize_then_border(new, top, bottom, left, right) ==
    IF new[1] <= 0 \/ new[2] <= 0
    THEN [status |-> "raised"]
    ELSE [status |-> "ok",
          width |-> new[1] + left + right,
          height |-> new[2] + top + bottom,
          resized |-> new,
          bordered |-> TRUE,
          pad_top |-> top, pad_bottom |-> bottom,
          pad_left |-> left, pad_right |-> right]

\* A frame that went through cv2.resize alone (resized |-> new) or through
\* nothing (resized |-> <<0, 0>>).
plain_frame(size, new) ==
    [status |-> "ok", width |-> size[1], height |-> size[2],
     resized |-> new, bordered |-> FALSE,
     pad_top |-> 0, pad_bottom |-> 0, pad_left |-> 0, pad_right |-> 0]

\* shorts_format = False: `if current_w != output_width or current_h !=
\* output_height`.
needs_resize_Always(f, t) == TRUE

needs_resize(f, t) == f[1] # t[1] \/ f[2] # t[2]

\* _resize_and_pad_frame(frame, target_size, shorts_format)
resize_and_pad_frame(f, t, shorts) ==
    IF shorts
    THEN IF source_wider(f, t)
         THEN LET new_h == scaled_height(f, t[1])
                  pad_v == t[2] - new_h
              IN  resize_then_border(<<t[1], new_h>>, pad_first(pad_v),
                                     pad_v - pad_first(pad_v), 0, 0)
         ELSE IF source_taller(f, t)
         THEN LET new_w == scaled_width(f, t[2])
                  pad_h == t[1] - new_w
              IN  resize_then_border(<<new_w, t[2]>>, 0, 0, pad_first(pad_h),
                                     pad_h - pad_first(pad_h))
         ELSE plain_frame(t, t)
    ELSE IF needs_resize(f, t)
         THEN plain_frame(t, t)
         ELSE plain_frame(f, <<0, 0>>)

\* A frame, a target size and a policy, before the call.
FrameInit ==
    /\ stop_event = FALSE
    /\ RecInit
    /\ cfg = [duration |-> 0, mic_device_index |-> None,
              record_sys_audio |-> FALSE]
    /\ AppIdle
    /\ NameIdle
    /\ PipeIdle
    /\ frame \in SourceSizes
    /\ target_size \in TargetSizes
    /\ shorts_format \in BOOLEAN
    /\ final_frame = NoFrame

\* The call returns its frame, or raises.
ResizeAndPad ==
    /\ final_frame = NoFrame
    /\ final_frame' = resize_and_pad_frame(frame, target_size, shorts_format)
    /\ UNCHANGED <<stop_event, recVars, appVars, nameVars, pipeVars, frame,
                   target_size, shorts_format>>

FrameNext == ResizeAndPad

FrameSpec == FrameInit /\ [][FrameNext]_vars

\* ================= Recorder._record_single_audio_stream, statement by
\* statement, for one worker

\* The worker followed here.
TheWorker == "mic"

\* What this part leaves alone: the thread of start(), the encoder, the
\* application, the file names and the frames.
restVars == <<cfg, pc, elapsed, frames, video_success, ffmpeg_inputs,
              ffmpeg_args, encoder_result, po_calls, pre_exists,
              join_timed_out, stop_calls, appVars, nameVars, frameVars>>

Range(q) == {q[i] : i \in 1..Len(q)}

\* queue.Queue(): no maxsize is given, and maxsize <= 0 means the queue is
\* never full.
queue_maxsize == 0

queue_full(w) == queue_maxsize > 0 /\ Len(queue[w]) >= queue_maxsize

\* The driver owns one buffer, indata, and refills it for every callback: the
\* n-th callback finds the n-th block of samples in it.  A reference to indata
\* itself is written -1 and reads as whatever the driver put there last.
indata_ref == -1

\* indata.copy(): an array of its own holding the samples of this callback.
indata_copy_Alias(n) == indata_ref

indata_copy(n) == n

\* The samples an array holds when it is read.
buffer_value(w, e) == IF e = indata_ref THEN produced[w] ELSE e

\* threading.Thread(target=...).start() in start(): the worker begins.
RS_ThreadStart(w) ==
    /\ wpc[w] = "none"
    /\ wpc' = [wpc EXCEPT ![w] = "open_file"]
    /\ UNCHANGED <<stop_event, restVars, pipeVars, audio_success, success_flag,
                   stream_open, queue, produced, files, device_failed>>

\* file = sf.SoundFile(temp_filename, mode="w", ...), or it raises: the outer
\* except sets success_flag = False and the finally block runs with file and
\* stream None.
RS_OpenFile(w) ==
    /\ wpc[w] = "open_file"
    /\ \/ /\ files' = [files EXCEPT ![w] =
                          [exists |-> TRUE, size |-> WavHeaderBytes, open |-> TRUE]]
          /\ wpc' = [wpc EXCEPT ![w] = "open_stream"]
       \/ /\ wpc' = [wpc EXCEPT ![w] = "close_stream"]
          /\ UNCHANGED files
    /\ UNCHANGED <<stop_event, restVars, pipeVars, audio_success, success_flag,
                   stream_open, queue, produced, device_failed>>

\* stream = sd.InputStream(...); stream.start().  Either may raise: then the
\* stream is None (the constructor raised) or open and not started (start()
\* raised), success_flag = False, and the finally block runs.
RS_OpenStream(w) ==
    /\ wpc[w] = "open_stream"
    /\ \/ /\ stream_open' = [stream_open EXCEPT ![w] = TRUE]
          /\ wpc' = [wpc EXCEPT ![w] = "poll"]
          /\ UNCHANGED <<success_flag, device_failed>>
       \/ /\ \E constructed \in BOOLEAN :
                stream_open' = [stream_open EXCEPT ![w] = constructed]
          /\ success_flag' = [success_flag EXCEPT ![w] = FALSE]
          /\ device_failed' = device_failed \cup {w}
          /\ wpc' = [wpc EXCEPT ![w] = "close_stream"]
    /\ UNCHANGED <<stop_event, restVars, pipeVars, audio_success, queue,
                   produced, files>>

\* _audio_callback on the driver's thread, while the stream runs:
\* target_queue.put(indata.copy()), which waits only for a full queue.
RS_Callback(w) ==
    /\ stream_open[w]
    /\ w \notin device_failed
    /\ produced[w] < MaxCallbacks
    /\ ~queue_full(w)
    /\ produced' = [produced EXCEPT ![w] = @ + 1]
    /\ queue' = [queue EXCEPT ![w] = Append(@, indata_copy(produced[w] + 1))]
    /\ UNCHANGED <<stop_event, restVars, pipeVars, audio_success, wpc,
                   success_flag, stream_open, files, device_failed>>

\* stop() of the recorder, or start() after the video loop: the event is set.
RS_SetEvent(w) ==
    /\ ~stop_event
    /\ wpc[w] # "none"
    /\ stop_event' = TRUE
    /\ at_stop' = 1..produced[w]
    /\ UNCHANGED <<restVars, data, written, write_failed, close_raised,
                   audio_success, wpc, success_flag, stream_open, queue,
                   produced, files, device_failed>>

\* `while not self.stop_event.is_set()`
RS_Poll(w) ==
    /\ wpc[w] = "poll"
    /\ wpc' = [wpc EXCEPT ![w] = IF stop_requested THEN "close_stream" ELSE "get"]
    /\ UNCHANGED <<stop_event, restVars, pipeVars, audio_success, success_flag,
                   stream_open, queue, produced, files, device_failed>>

\* data = target_queue.get(timeout=0.1): the oldest buffer, or queue.Empty
\* after the timeout and back to the loop test.
RS_Get(w) ==
    /\ wpc[w] = "get"
    /\ IF queue[w] # <<>>
       THEN /\ data' = Head(queue[w])
            /\ queue' = [queue EXCEPT ![w] = Tail(@)]
            /\ wpc' = [wpc EXCEPT ![w] = "write"]
       ELSE /\ wpc' = [wpc EXCEPT ![w] = "poll"]
            /\ UNCHANGED <<data, queue>>
    /\ UNCHANGED <<stop_event, restVars, written, write_failed, at_stop,
                   close_raised, audio_success, success_flag, stream_open,
                   produced, files, device_failed>>

\* file.write(data), then success_flag = True; or the write raises, which is
\* logged.  Back to the loop test either way.
RS_Write(w) ==
    /\ wpc[w] = "write"
    /\ \/ /\ \E n \in BufSizes : files' = Written(w, n)
          /\ written' = Append(written, buffer_value(w, data))
          /\ success_flag' = [success_flag EXCEPT ![w] = FirstWriteFlag(w)]
          /\ UNCHANGED write_failed
       \/ /\ write_failed' = write_failed \cup {buffer_value(w, data)}
          /\ UNCHANGED <<files, written, success_flag>>
    /\ data' = 0
    /\ wpc' = [wpc EXCEPT ![w] = "poll"]
    /\ UNCHANGED <<stop_event, restVars, at_stop, close_raised, audio_success,
                   stream_open, queue, produced, device_failed>>

\* Where the finally block goes after its first try block: to the second one,
\* which closes the file, whether the first raised or not.
after_stream_close_Skip(raised) == IF raised THEN "ret" ELSE "close_file"

after_stream_close(raised) == "close_file"

\* finally, first try block: `if stream is not None`, stream.stop() and
\* stream.close() unless it is closed; an exception is logged and leaves the
\* stream as it is.
RS_CloseStream(w) ==
    /\ wpc[w] = "close_stream"
    /\ \/ /\ stream_open' = [stream_open EXCEPT ![w] = FALSE]
          /\ wpc' = [wpc EXCEPT ![w] = after_stream_close(FALSE)]
          /\ UNCHANGED close_raised
       \/ /\ stream_open[w]
          /\ close_raised' = close_raised \cup {"stream"}
          /\ wpc' = [wpc EXCEPT ![w] = after_stream_close(TRUE)]
          /\ UNCHANGED stream_open
    /\ UNCHANGED <<stop_event, restVars, data, written, write_failed, at_stop,
                   audio_success, success_flag, queue, produced, files,
                   device_failed>>

\* finally, second try block: `if file is not None`, file.close(); an
\* exception is logged and leaves the file open.
RS_CloseFile(w) ==
    /\ wpc[w] = "close_file"
    /\ \/ /\ files' = [files EXCEPT ![w].open = FALSE]
          /\ UNCHANGED close_raised
       \/ /\ files[w].open
          /\ close_raised' = close_raised \cup {"file"}
          /\ UNCHANGED files
    /\ wpc' = [wpc EXCEPT ![w] = "ret"]
    /\ UNCHANGED <<stop_event, restVars, data, written, write_failed, at_stop,
                   audio_success, success_flag, stream_open, queue, produced,
                   device_failed>>

\* return success_flag, which the thread's target stores; the thread ends.
RS_Return(w) ==
    /\ wpc[w] = "ret"
    /\ audio_success' = [audio_success EXCEPT ![w] = ThreadResult(w)]
    /\ wpc' = [wpc EXCEPT ![w] = "done"]
    /\ UNCHANGED <<stop_event, restVars, pipeVars, success_flag, stream_open,
                   queue, produced, files, device_failed>>

AudioNext ==
    \/ RS_ThreadStart(TheWorker)
    \/ RS_OpenFile(TheWorker)
    \/ RS_OpenStream(TheWorker)
    \/ RS_Callback(TheWorker)
    \/ RS_SetEvent(TheWorker)
    \/ RS_Poll(TheWorker)
    \/ RS_Get(TheWorker)
    \/ RS_Write(TheWorker)
    \/ RS_CloseStream(TheWorker)
    \/ RS_CloseFile(TheWorker)
    \/ RS_Return(TheWorker)

\* One audio worker of a recorder whose stop event is clear, with its driver
\* and whoever sets the event.
AudioSpec == AppInit /\ [][AudioNext]_vars

\* ================================================================ claims

Active(s) == tpc[s] \notin {"none", "finished"}

Returned == pc \in {"done", "raised"}

\* The outcome flag of the worker that owns a temporary file.
OwnerSuccess(f) == IF f = "video" THEN video_success ELSE audio_success[f]

InputSet == {ffmpeg_inputs[i] : i \in 1..Len(ffmpeg_inputs)}

\* The encoder numbers its inputs from 0 in the order of the -i arguments: the
\* stream label under which the filter graph refers to the file f.
StreamOf(f) ==
    IF f = "video"
    THEN "0:v:0"
    ELSE InputLabel((CHOOSE k \in 1..Len(ffmpeg_inputs) : ffmpeg_inputs[k] = f) - 1)

\* The encoder, when it exits with code 0, has written the final output with
\* one stream per -map argument; otherwise no final output is counted.
output_streams == IF encoder_result = "ok" THEN ffmpeg_args.map ELSE <<>>

\* An audio artifact is usable: its worker reported success, the file exists
\* and is larger than the threshold.
UsableAudio(w) ==
    audio_success[w] /\ files[w].exists /\ files[w].size > MinAudioBytes

\* C1: for a session started with duration = 0, every accepted stop request
\* (stop_recording_route called the recorder's stop()), made at any point
\* after the session was started, is eventually followed by the end of the
\* session: the video loop exits and run_recording_process finishes.
C1_AcceptedStopEndsSession ==
    \A s \in Sessions :
        (s \in accepted /\ dur[s] = 0) ~> (tpc[s] = "finished")

\* C2: at most one recording session is active at a time: no second Recorder
\* and recording thread exist while another session's run_recording_process
\* has not finished.
C2_AtMostOneSession == Cardinality({s \in Sessions : Active(s)}) <= 1

\* C3, as claimed: while the encoder runs, the video loop has ended and no
\* audio worker thread is still running.
C3_EncoderNeverWithWorker ==
    pc = "encoder" => (~files["video"].open /\ \A w \in Workers : ~Alive(w))

\* C3, amended: while the encoder runs, the video loop has ended and every
\* audio worker thread has ended or its join has timed out.
C3_EncoderAfterJoinOrTimeout ==
    pc = "encoder" =>
        /\ ~files["video"].open
        /\ \A w \in Workers : Alive(w) => w \in join_timed_out

C3_Witness ==
    /\ pc = "encoder"
    /\ wpc["mic"] = "done"
    /\ Alive("sys")
    /\ "sys" \in join_timed_out

\* C4: once the video loop has ended, start() reaches _process_output and
\* returns, whatever the audio workers do.
C4_StartReturns == (pc = "set_event") ~> (pc = "done")

C6_UsableOnlyIfValid ==
    pc = "encoder" =>
        \A f \in InputSet :
            /\ OwnerSuccess(f)
            /\ files[f].exists
            /\ files[f].size > MinAudioBytes

\* C7: the encoder is invoked at most once and only for a usable video; when
\* the video is not usable, _process_output invokes no encoder and, when it is
\* left, every audio temporary that existed and whose worker had ended (so that
\* nothing keeps the file from being removed) is deleted.
C7_AbortCleansUp ==
    /\ ffmpeg_inputs # <<>> => (video_success /\ "video" \in pre_exists)
    /\ (Returned /\ ffmpeg_inputs = <<>>) =>
          /\ encoder_result = None
          /\ \A w \in (Workers \cap pre_exists) \ join_timed_out :
                ~files[w].exists

\* C8: when the encoder invocation fails, every temporary file that existed
\* when _process_output began still exists when start() has returned.
C8_FailedMergeKeepsFiles ==
    (pc = "done" /\ encoder_result \in EncoderResults \ {"ok"}) =>
        pre_exists \subseteq Existing

C8_Witness ==
    /\ pc = "done"
    /\ encoder_result = "nonzero"
    /\ pre_exists = Files

C10_NoExceptionEscapes == pc # "raised"

\* C11: when opening the audio input device fails in an audio worker, the
\* worker goes to its finally block and returns failure: the step changes
\* neither the stop event nor the position of the thread of start() nor the
\* other worker nor any file; from then on the worker's outcome flag is false,
\* its file is never among the encoder inputs, and start() still ends after
\* one invocation of _process_output.
C11_DeviceFailureIsContained ==
    /\ [][\A w \in Workers :
            (w \in device_failed' /\ w \notin device_failed)
            => /\ stop_event' = stop_event
               /\ pc' = pc
               /\ wpc'[w] = "finally"
               /\ \A v \in Workers \ {w} : wpc'[v] = wpc[v]
               /\ files' = files]_vars
    /\ [](\A w \in device_failed :
            /\ ~success_flag[w]
            /\ ~audio_success[w]
            /\ w \notin InputSet
            /\ Returned => po_calls = 1)

C11_Witness ==
    /\ pc = "done"
    /\ "sys" \in device_failed
    /\ encoder_result = "ok"
    /\ ffmpeg_inputs = <<"video", "mic">>

\* C12 (as stated): an audio source whose device identifier is null is never
\* started, the microphone as well as the system audio: no thread, no file, no
\* stream for it.
C12_NullDeviceNeverStarted ==
    /\ cfg.mic_device_index = None
       => wpc["mic"] = "none" /\ ~files["mic"].exists /\ ~stream_open["mic"]
    /\ ~cfg.record_sys_audio
       => wpc["sys"] = "none" /\ ~files["sys"].exists /\ ~stream_open["sys"]

\* C13: when _process_output() begins with a usable video artifact and no
\* usable audio artifact, it goes on to the encoder with the video as the only
\* input; that command maps the video stream alone, carries -an and no audio
\* codec, its filter graph reads nothing but the video, and after exit code 0
\* the final output holds exactly the video stream.
C13_VideoOnlyAssembly ==
    /\ [][(/\ pc = "process"
           /\ pc' # pc
           /\ video_success
           /\ files["video"].exists
           /\ files["video"].size > MinAudioBytes
           /\ \A w \in Workers : ~UsableAudio(w))
          => (pc' = "encoder" /\ ffmpeg_inputs' = <<"video">>)]_vars
    /\ [](ffmpeg_inputs = <<"video">>
          => /\ ffmpeg_args.map = <<"v_synced">>
             /\ ffmpeg_args.an
             /\ ffmpeg_args.audio_codec = None
             /\ \A i \in DOMAIN ffmpeg_args.filter_complex :
                    ffmpeg_args.filter_complex[i].inputs = <<"0:v:0">>
             /\ encoder_result = "ok" => output_streams = <<"v_synced">>)

C13_Witness ==
    /\ pc = "done"
    /\ encoder_result = "ok"
    /\ ffmpeg_inputs = <<"video">>
    /\ wpc["mic"] = "done"
    /\ frames > 0

\* C14: when both audio files are encoder inputs, the filter graph has exactly
\* one mixing chain, fed by the two chains that read the two audio inputs, and
\* the command maps exactly two streams: the filtered video and the output of
\* that mix.  No audio input and no per-input audio chain is mapped itself.
C14_TwoAudioInputsAreMixed ==
    {"mic", "sys"} \subseteq InputSet =>
        LET fc == ffmpeg_args.filter_complex
            mixes == {i \in DOMAIN fc : fc[i].filter = "amix"}
            Source(l) == {fc[i].inputs : i \in {j \in DOMAIN fc : fc[j].out = l}}
        IN  /\ Cardinality(mixes) = 1
            /\ \A m \in mixes :
                  /\ Len(fc[m].inputs) = 2
                  /\ Source(fc[m].inputs[1]) \cup Source(fc[m].inputs[2])
                        = {<<StreamOf("mic")>>, <<StreamOf("sys")>>}
                  /\ ffmpeg_args.map = <<"v_synced", fc[m].out>>
            /\ Source("v_synced") = {<<StreamOf("video")>>}
            /\ ~ffmpeg_args.an

C14_Witness ==
    /\ pc = "encoder"
    /\ ffmpeg_inputs = <<"video", "mic", "sys">>
    /\ Len(ffmpeg_args.filter_complex) = 4

\* C15 (as stated): whenever the system-audio file is an encoder input, with or
\* without the microphone file, a chain of the filter graph applies the
\* negative time offset to the system-audio stream; and the offset is applied
\* to no other stream.
C15_SystemAudioIsShifted ==
    LET fc == ffmpeg_args.filter_complex
        Shifted == {i \in DOMAIN fc : fc[i].expr = "PTS-STARTPTS-0.5/TB"}
    IN  /\ "sys" \in InputSet
           => \E i \in Shifted : fc[i].inputs = <<StreamOf("sys")>>
        /\ \A i \in Shifted :
              "sys" \in InputSet /\ fc[i].inputs = <<StreamOf("sys")>>

\* C16: in every command built, the first input is the temporary video, the
\* later inputs are audio files without repetition and the microphone file
\* never comes after the system-audio file; the command has one input more
\* than there are usable audio artifacts when it is built; and the video codec
\* is an encoder (libx264), not stream copy.
C16_InputOrderAndReencode ==
    /\ [](ffmpeg_inputs # <<>>
          => /\ ffmpeg_inputs[1] = "video"
             /\ \A i \in 2..Len(ffmpeg_inputs) : ffmpeg_inputs[i] \in Workers
             /\ \A i, j \in 1..Len(ffmpeg_inputs) :
                   /\ i # j => ffmpeg_inputs[i] # ffmpeg_inputs[j]
                   /\ (i < j /\ ffmpeg_inputs[i] = "sys") => ffmpeg_inputs[j] # "mic"
             /\ ffmpeg_args.video_codec = "libx264"
             /\ ffmpeg_args.video_codec \notin {None, "copy"})
    /\ [][(pc = "process" /\ pc' = "encoder")
          => /\ Len(ffmpeg_inputs') = 1 + Cardinality({w \in Workers : UsableAudio(w)})
             /\ \A w \in Workers : UsableAudio(w) <=> w \in InputSet']_vars

C16_Witness ==
    /\ pc = "done"
    /\ encoder_result = "nonzero"
    /\ Len(ffmpeg_inputs) = 3

C18_VideoLoopExit ==
    [][/\ (pc = "video_check" /\ pc' # pc)
          => (pc' = "set_event"
              <=> (stop_event \/ (cfg.duration > 0 /\ elapsed >= cfg.duration)))
       /\ (pc = "video_check" /\ pc' # pc /\ pc' # "set_event")
          => pc' = "video_body"
       /\ (pc \in {"video_body", "video_write"} /\ pc' = "set_event")
          => ~video_success'
       /\ (cfg.duration = 0
           /\ pc \in {"video_check", "video_body", "video_write"}
           /\ pc' = "set_event")
          => (stop_event \/ ~video_success')]_vars

C18_Witness ==
    /\ cfg.duration = 0
    /\ pc = "video_body"
    /\ elapsed = MaxDuration
    /\ frames = MaxFrames
    /\ ~stop_event

\* C19: while the stop event is set, the video loop does not go from its test
\* into another pass of its body, and an audio writer loop takes no further
\* buffer from its queue: at its poll it can only leave the loop; and the video
\* loop, whose thread the scheduler keeps running, does leave it.
C19_StopObservedAtNextPoll ==
    /\ [][stop_event
          => /\ ~(pc = "video_check" /\ pc' = "video_body")
             /\ \A w \in Workers :
                   wpc[w] = "loop"
                   => /\ wpc'[w] \in {"loop", "finally"}
                      /\ Len(queue'[w]) >= Len(queue[w])
                      /\ success_flag'[w] = success_flag[w]]_vars
    /\ (stop_event /\ pc \in {"video_check", "video_body", "video_write"})
          ~> (pc = "set_event")

C19_Witness ==
    /\ stop_event
    /\ stop_calls = "once"
    /\ pc = "join_mic"
    /\ wpc["mic"] = "finally"
    /\ queue["mic"] # <<>>

\* C20: within one run of start() the stop event goes from set to clear only
\* in start()'s first step, which is taken once; every other change of the
\* event is from clear to set; and the event is set when start() has ended.
C20_EventClearedOnce ==
    /\ [][/\ (stop_event /\ ~stop_event') => pc = "start"
          /\ (pc = "start" /\ pc' # pc) => ~stop_event'
          /\ pc # "start" => pc' # "start"]_vars
    /\ [](Returned => stop_event)

C20_Witness ==
    /\ pc = "done"
    /\ stop_calls = "none"
    /\ stop_event
    /\ encoder_result = "ok"
    /\ elapsed = 0
    /\ cfg.duration > 0

\* C21: the video worker reports success only when it has written at least one
\* frame: a run whose loop wrote no frame is reported as failed.
C21_SuccessNeedsAFrame ==
    video_success => frames >= 1

\* C22: the step that ends run_recording_process leaves recording False,
\* recorder_instance None and final_output None.
C22_ResetOnExit ==
    [][\A s \in Sessions :
          (tpc[s] # "finished" /\ tpc'[s] = "finished")
          => /\ ~recording'
             /\ recorder_instance' = NoSession
             /\ final_output' = NoSession]_vars

C24_DisjointPaths ==
    \A i, j \in 1..Len(generated) :
        i # j => GeneratedPaths(generated[i]) \cap GeneratedPaths(generated[j]) = {}

\* C25: start() starts the audio threads before the video loop runs; the stop
\* event is set, and the video writer released, before the first join; no join
\* has timed out before the joins begin; _process_output is entered only when
\* every started audio thread has ended or had its join time out, and it is
\* called exactly once.
C25_StartOrder ==
    /\ pc \in {"video_open", "video_check", "video_body", "video_write"}
       => /\ wpc["mic"] # "none"
          /\ cfg.record_sys_audio => wpc["sys"] # "none"
    /\ pc \in {"start", "spawn"} => \A w \in Workers : wpc[w] = "none"
    /\ pc \in {"join_mic", "join_sys", "process", "encoder", "done", "raised"}
       => (stop_event /\ ~files["video"].open)
    /\ pc \in {"start", "spawn", "video_open", "video_check", "video_body",
               "video_write", "set_event", "join_mic"}
       => join_timed_out = {}
    /\ pc = "join_sys" => "sys" \notin join_timed_out
    /\ pc \in {"process", "encoder", "done", "raised"}
       => \A w \in threads_to_join : ~Alive(w) \/ w \in join_timed_out
    /\ po_calls = (IF pc \in {"encoder", "done", "raised"} THEN 1 ELSE 0)

C25_Witness ==
    /\ pc = "process"
    /\ join_timed_out = {"sys"}
    /\ wpc["mic"] = "done"
    /\ Alive("sys")
    /\ po_calls = 0

\* C26 (as stated): when _process_output reads the outcome flags no audio
\* worker is running any more.
C26_FlagReadAfterThreadEnded ==
    pc = "process" => \A w \in Workers : ~Alive(w)

\* C26 (amended): an audio worker's outcome flag is False until the worker's
\* own thread stores its returned value as its last step, and is that value
\* from then on; _process_output reads the flags only when every started
\* worker has ended or had its join time out.
C26_FlagReadAfterJoinOrTimeout ==
    /\ \A w \in Workers :
          /\ wpc[w] # "done" => ~audio_success[w]
          /\ wpc[w] = "done" => audio_success[w] = success_flag[w]
    /\ pc = "process"
       => \A w \in threads_to_join : ~Alive(w) \/ w \in join_timed_out

C26_Witness ==
    /\ pc = "encoder"
    /\ "mic" \in join_timed_out
    /\ Alive("mic")
    /\ success_flag["mic"]
    /\ ~audio_success["mic"]
    /\ "mic" \notin InputSet

\* C27: when the video worker leaves through an exception (from opening the
\* writer or from the loop body) the stop event is set, video_success is False
\* and the writer is not open; when it leaves through the loop test
\* video_success is True and the writer has been released; the worker always
\* hands control back to start(), and the writer is closed only on the way out.
C27_VideoWorkerExit ==
    [][/\ (pc \in {"video_open", "video_body", "video_write"}
           /\ pc' = "set_event")
          => (stop_event' /\ ~video_success' /\ ~files'["video"].open)
       /\ (pc = "video_check" /\ pc' = "set_event")
          => (video_success' /\ files'["video"].exists
              /\ ~files'["video"].open)
       /\ (pc \in {"video_open", "video_check", "video_body", "video_write"}
           /\ pc' # pc)
          => pc' \in {"video_check", "video_body", "video_write", "set_event"}
       /\ (files["video"].open /\ ~files'["video"].open)
          => pc' = "set_event"]_vars

C27_Witness ==
    /\ pc = "set_event"
    /\ ~video_success
    /\ files["video"].exists
    /\ ~files["video"].open
    /\ stop_calls = "none"
    /\ stop_event

\* C28: a write of a buffer that raises in the audio worker (the buffer is
\* taken from the queue and the file is left as it was) sets the stop event and
\* makes the worker's outcome failed.
C28_WriteErrorStopsSession ==
    [][\A w \in Workers :
          (/\ wpc[w] = "loop"
           /\ wpc'[w] = "loop"
           /\ Len(queue'[w]) < Len(queue[w])
           /\ files[w].exists
           /\ files'[w] = files[w])
          => (stop_event' /\ ~success_flag'[w])]_vars

C30_AudioFlag ==
    \A w \in Workers :
        /\ (files[w].exists /\ wpc[w] \notin {"none", "open_file"})
           => (success_flag[w] <=> files[w].size > WavHeaderBytes)
        /\ w \in device_failed => ~success_flag[w]
        /\ wpc[w] \in {"none", "open_file", "open_stream"} => ~success_flag[w]

C30_Witness ==
    /\ wpc["mic"] = "done"
    /\ audio_success["mic"]
    /\ files["mic"].exists
    /\ files["mic"].size > WavHeaderBytes
    /\ wpc["sys"] = "done"
    /\ "sys" \in device_failed
    /\ ~audio_success["sys"]

\* C34: under the letterbox policy every call returns a frame of exactly the
\* target size: a source wider than the target aspect is scaled to the target
\* width and padded top and bottom only, a narrower one is scaled to the target
\* height and padded left and right only, and the second pad of the pair
\* (bottom, right) is the first or one pixel more.
C34_LetterboxExact ==
    (shorts_format /\ final_frame # NoFrame)
    => /\ final_frame.status = "ok"
       /\ final_frame.width = target_size[1]
       /\ final_frame.height = target_size[2]
       /\ source_wider(frame, target_size)
          => /\ final_frame.resized[1] = target_size[1]
             /\ final_frame.pad_left = 0 /\ final_frame.pad_right = 0
             /\ final_frame.pad_bottom - final_frame.pad_top \in {0, 1}
       /\ source_taller(frame, target_size)
          => /\ final_frame.resized[2] = target_size[2]
             /\ final_frame.pad_top = 0 /\ final_frame.pad_bottom = 0
             /\ final_frame.pad_right - final_frame.pad_left \in {0, 1}

\* A frame of the whole 1920x1080 screen (region = None) has been brought to
\* the letterbox target of _screen_record.
FullScreenShorts ==
    /\ frame = <<1920, 1080>>
    /\ shorts_format
    /\ target_size = ScreenRecord_target_size(frame, shorts_format)
    /\ final_frame # NoFrame

\* C35 (as stated): the 1920x1080 full-screen frame is letterboxed into
\* 1080x1920 with bands on the left and right that share
\* 1080 - int(1080*1080/1920) pixels evenly.
C35_SideBands ==
    FullScreenShorts
    => /\ final_frame.status = "ok"
       /\ final_frame.pad_left + final_frame.pad_right
             = 1080 - (1080 * 1080) \div 1920
       /\ final_frame.pad_right - final_frame.pad_left \in {0, 1}
       /\ final_frame.pad_top = 0 /\ final_frame.pad_bottom = 0

\* C35 (amended): the 1920x1080 full-screen frame is scaled to 1080x607 and
\* letterboxed into 1080x1920 with bands at the top and the bottom that share
\* 1920 - int(1080*1080/1920) = 1313 rows, 656 above and 657 below; no column
\* is added on the left or right.
C35_TopBottomBands ==
    FullScreenShorts
    => /\ final_frame.status = "ok"
       /\ final_frame.width = 1080 /\ final_frame.height = 1920
       /\ final_frame.resized = <<1080, (1080 * 1080) \div 1920>>
       /\ final_frame.pad_top = (1920 - (1080 * 1080) \div 1920) \div 2
       /\ final_frame.pad_top = 656
       /\ final_frame.pad_bottom = 657
       /\ final_frame.pad_left = 0 /\ final_frame.pad_right = 0

C35_Witness ==
    /\ FullScreenShorts
    /\ final_frame.status = "ok"
    /\ final_frame.bordered
    /\ final_frame.height = 1920

\* C36: under the letterbox policy a source whose aspect ratio equals the
\* target's is returned as the direct resize to the target size: no border is
\* made and no padding row or column is added.
C36_SameAspectNoPadding ==
    (/\ shorts_format
     /\ final_frame # NoFrame
     /\ frame[1] * target_size[2] = target_size[1] * frame[2])
    => final_frame = plain_frame(target_size, target_size)

C36_Witness ==
    /\ shorts_format
    /\ frame = <<2, 4>>
    /\ target_size = <<1, 2>>
    /\ final_frame.status = "ok"
    /\ final_frame.resized = <<1, 2>>
    /\ ~final_frame.bordered

\* C37: without the letterbox policy every call returns a frame of exactly the
\* target size, never padded; the frame went through a resize exactly when its
\* size differed from the target, and is returned as it came otherwise.
C37_PlainResize ==
    (~shorts_format /\ final_frame # NoFrame)
    => /\ final_frame.status = "ok"
       /\ final_frame.width = target_size[1]
       /\ final_frame.height = target_size[2]
       /\ ~final_frame.bordered
       /\ final_frame.pad_top = 0 /\ final_frame.pad_bottom = 0
       /\ final_frame.pad_left = 0 /\ final_frame.pad_right = 0
       /\ final_frame.resized
             = (IF frame = target_size THEN <<0, 0>> ELSE target_size)

C37_Witness ==
    /\ ~shorts_format
    /\ frame = <<3, 2>>
    /\ target_size = <<3, 2>>
    /\ final_frame.status = "ok"
    /\ final_frame.resized = <<0, 0>>

QueueCapacity ==
    IF queue_maxsize > 0 THEN queue_maxsize ELSE MaxCallbacks - 1

\* C32: the queue between the callback and the writer loop never holds more
\* buffers than a fixed capacity.
C32_QueueBounded ==
    Len(queue[TheWorker]) <= QueueCapacity

\* The buffers the writer loop has taken from the queue so far.
Taken ==
    Range(written) \cup write_failed
    \cup (IF data = 0 THEN {} ELSE {buffer_value(TheWorker, data)})

\* C33: the buffers are written in the order the callback enqueued them, each
\* at most once; the buffers taken so far are the first ones enqueued, the
\* queue holds the others in the order of their arrival, each with the samples
\* the callback received, and no buffer is both written and failed.
C33_WrittenInOrder ==
    /\ \A i, j \in 1..Len(written) : i < j => written[i] < written[j]
    /\ Taken = 1..(produced[TheWorker] - Len(queue[TheWorker]))
    /\ \A i \in 1..Len(queue[TheWorker]) :
          queue[TheWorker][i]
             = produced[TheWorker] - Len(queue[TheWorker]) + i
    /\ Range(written) \cap write_failed = {}
    /\ data # 0 => data \notin Range(written) \cup write_failed

C33_Witness ==
    /\ written = <<1, 3>>
    /\ write_failed = {2}
    /\ wpc[TheWorker] = "done"

\* C39: when the audio worker has terminated, every buffer enqueued before the
\* stop event was set has been taken from the queue and handed to file.write.
C39_NothingDiscarded ==
    wpc[TheWorker] = "done" => at_stop \subseteq Range(written) \cup write_failed

\* The recording thread of session s has been started and has not reached the
\* finally block of run_recording_process.
Running(s) == tpc[s] \notin {"none", "finally", "reset_instance", "finished"}

\* C38: while a session that was started successfully is running, recording is
\* True and recorder_instance is that session's Recorder.
C38_RunningSessionStoppable ==
    \A s \in Sessions : Running(s) => (recording /\ recorder_instance = s)

====
